---- MODULE Spec2Model ----
(***************************************************************************)
(* Region matching of MotionTracker (src/MotionTrackerBeta/match.py):      *)
(* match_object's decision policy, match_video, and the batch driver       *)
(* run_match with the target resolution of batch.find_videos.              *)
(*                                                                         *)
(* Confidences and thresholds are integers in percent (0.7 is 70).         *)
(* An optional value (Python None) is a sequence: <<>> is None, <<v>> is v.*)
(* A file name is the tuple of its dot-separated parts: "a.mp4" is         *)
(* <<"a", "mp4">>; a path is [abs, comps] with comps a sequence of names.  *)
(***************************************************************************)
EXTENDS Integers, Sequences, FiniteSets, TLC

VARIABLES
    pc,            \* position in run_match / read_frame / match_video
    args,          \* the parsed command line
    world,         \* the videos on disk and the documents present at start
    docs,          \* the settings documents on disk
    ref_path, ref_settings, ref_frame,
    cap,           \* the capture object of read_frame
    handles,       \* every capture object open_video has returned, in order
    frame,         \* what read_frame returned last
    targets, skipped, i, results, all_results,
    calls,         \* matcher invocations so far: <<target, region, matcher>>
    written,       \* calls of generate_settings so far
    message,       \* the diagnostic run_match printed before leaving early
    summary, exit_code,
    mo             \* a single call of match_object and what it returned

vars == <<pc, args, world, docs, ref_path, ref_settings, ref_frame, cap, handles,
          frame, targets, skipped, i, results, all_results, calls, written,
          message, summary, exit_code, mo>>

\* ------------------------------------------------------------------ bounds
MaxArgs == 2
MaxRegions == 2

\* ------------------------------------------------------------ small helpers
None == <<>>
Some(v) == <<v>>

RECURSIVE Flatten(_)
Flatten(ss) == IF ss = <<>> THEN <<>> ELSE Head(ss) \o Flatten(Tail(ss))

SeqsUpTo(S, n) == UNION {[1..k -> S] : k \in 0..n}

Count(s, P(_)) == Cardinality({k \in DOMAIN s : P(s[k])})

\* --------------------------------------------------------------- the paths
Dot == <<".">>
DotDot == <<"..">>
cwd == << <<"d">> >>

RefName == <<"ref", "mp4">>
AName == <<"a", "mp4">>
BName == <<"b", "MP4">>
SettingsSuffix == <<"motiontracker", "json">>

AbsPath(comps) == [abs |-> TRUE, comps |-> comps]
RelPath(comps) == [abs |-> FALSE, comps |-> comps]

RECURSIVE normpath(_, _)
normpath(done, rest) ==
    IF rest = <<>> THEN done
    ELSE IF Head(rest) = Dot THEN normpath(done, Tail(rest))
    ELSE IF Head(rest) = DotDot
         THEN normpath(IF done = <<>> THEN <<>>
                       ELSE SubSeq(done, 1, Len(done) - 1), Tail(rest))
    ELSE normpath(Append(done, Head(rest)), Tail(rest))

abspath(p) ==
    AbsPath(normpath(<<>>, IF p.abs THEN p.comps ELSE cwd \o p.comps))

dirname(p) == [p EXCEPT !.comps = SubSeq(@, 1, Len(@) - 1)]

join(p, f) == [p EXCEPT !.comps = Append(@, f)]

\* t + ".motiontracker.json"
settings_path_of(p) ==
    [p EXCEPT !.comps[Len(p.comps)] = @ \o SettingsSuffix]

RefPath == AbsPath(cwd \o <<RefName>>)
APath == AbsPath(cwd \o <<AName>>)
BPath == AbsPath(cwd \o <<BName>>)
VideoPaths == {RefPath, APath, BPath}
DocPaths == {settings_path_of(v) : v \in VideoPaths}
Dirs == {AbsPath(<<>>), AbsPath(cwd)}

\* every name the directory /d can hold, in the order sorted() gives
SortedNames ==
    << AName, AName \o SettingsSuffix, BName, BName \o SettingsSuffix,
       RefName, RefName \o SettingsSuffix >>

isdir(p) == p.abs /\ p \in Dirs

isfile(d, p) ==
    /\ p.abs
    /\ \/ p \in VideoPaths
       \/ p \in DocPaths /\ d[p] # None

\* sorted(os.listdir(path)): the names present in directory path
listdir(d, p) ==
    SelectSeq(SortedNames, LAMBDA n : isfile(d, join(p, n)))

lower(s) ==
    CASE s = "MP4" -> "mp4"
      [] s = "JSON" -> "json"
      [] OTHER -> s

\* os.path.splitext(f)[1] without the dot
splitext(f) == IF Len(f) >= 2 THEN f[Len(f)] ELSE ""

VIDEO_EXTENSIONS ==
    {"mp4", "avi", "mov", "mkv", "wmv", "flv", "webm", "dcm", "dicom"}

\* fnmatch of one name against one pattern name; "*" is the only wildcard
\* and stands for the leading parts of the name (case-sensitive)
fnmatch(n, pat) ==
    IF pat[1] = "*"
    THEN /\ Len(n) >= Len(pat)
         /\ SubSeq(n, Len(n) - Len(pat) + 2, Len(n)) = Tail(pat)
    ELSE n = pat

\* sorted(glob.glob(arg)): paths in the form the pattern was given
glob(d, arg) ==
    IF arg.comps = <<>> THEN <<>>
    ELSE LET dir == dirname(arg)
             pat == arg.comps[Len(arg.comps)]
             names == IF isdir(abspath(dir)) THEN listdir(d, abspath(dir))
                      ELSE <<>>
             hits == SelectSeq(names, LAMBDA n : fnmatch(n, pat))
         IN [k \in DOMAIN hits |-> join(dir, hits[k])]

find_videos_arg(d, arg) ==
    LET path == abspath(arg) IN
    IF isdir(path)
    THEN LET fs == SelectSeq(listdir(d, path),
                     LAMBDA f : lower(splitext(f)) \in VIDEO_EXTENSIONS)
         IN [k \in DOMAIN fs |-> join(path, fs[k])]
    ELSE IF isfile(d, path) THEN <<path>>
    ELSE LET ms == SelectSeq(glob(d, arg), LAMBDA m : isfile(d, abspath(m)))
         IN [k \in DOMAIN ms |-> abspath(ms[k])]

find_videos(d, video_args) ==
    Flatten([k \in DOMAIN video_args |-> find_videos_arg(d, video_args[k])])

\* ------------------------------------------------------- frames and regions
\* A frame is [W, H, tm, fm]: its size and, for every rectangle a patch can
\* be cut from, what cv2.matchTemplate/minMaxLoc and the ORB pipeline find
\* in it.
RefSize == <<200, 100>>

RectP == <<10, 10, 50, 50>>
RectQ == <<0, 0, 150, 50>>
RectE == <<300, 10, 50, 50>>
Rects == {RectP, RectQ, RectE}

RegP == [name |-> "p", rectangle |-> RectP, point |-> <<35, 35>>]
RegQ == [name |-> "q", rectangle |-> RectQ, point |-> <<>>]
RegN == [name |-> "n", rectangle |-> <<>>, point |-> <<5, 5>>]
RegE == [name |-> "e", rectangle |-> RectE, point |-> <<>>]
RegionPool == {RegP, RegQ, RegN, RegE}

Max(a, b) == IF a >= b THEN a ELSE b
Min(a, b) == IF a <= b THEN a ELSE b

\* length of the Python slice [a:b] of a dimension of size n
PySliceLen(n, a, b) ==
    LET clamp(v) == IF v < 0 THEN Max(v + n, 0) ELSE Min(v, n)
    IN Max(0, clamp(b) - clamp(a))

extract_template(fr, rectangle) ==
    LET x == rectangle[1]
        y == rectangle[2]
        w == rectangle[3]
        h == rectangle[4]
    IN [w |-> PySliceLen(fr.W, x, x + w),
        h |-> PySliceLen(fr.H, y, y + h),
        of |-> rectangle]

\* cv2.matchTemplate raises when the template exceeds the image in one
\* dimension only; it swaps its operands when it exceeds the image in both
template_match(template, target_frame) ==
    LET fits == template.w <= target_frame.W /\ template.h <= target_frame.H
        swap == target_frame.W <= template.w /\ target_frame.H <= template.h
        found == target_frame.tm[template.of]
    IN IF fits \/ swap
       THEN [err |-> FALSE, x |-> found.x, y |-> found.y, conf |-> found.conf]
       ELSE [err |-> TRUE, x |-> 0, y |-> 0, conf |-> 0]

feature_match(ref_patch, target_frame, rectangle) ==
    LET f == target_frame.fm[rectangle] IN
    IF ~f.des \/ f.kp1 < 4 \/ f.kp2 < 4 THEN None
    ELSE IF f.good < 4 THEN None
    ELSE IF ~f.H THEN None
    ELSE Some([x |-> f.x, y |-> f.y, conf |-> (f.inliers * 100) \div f.good])

\* line 110 and line 117: a candidate is accepted at or above the threshold
accepts_strict(confidence, threshold) == confidence > threshold
accepts_reversed(confidence, threshold) == confidence <= threshold
accepts(confidence, threshold) == confidence >= threshold

\* line 113: the feature path runs only when nothing was accepted yet
runs_feature_always(used_method, method) == method \in {"feature", "auto"}
runs_feature(used_method, method) ==
    used_method = "None" /\ method \in {"feature", "auto"}

\* what match_object hands back: the tuple (matched, confidence,
\* method_used), the matcher invocations it made in order, and whether it
\* raised instead of returning
Ret(matched, confidence, method_used, trace) ==
    [matched |-> matched, conf |-> confidence, method_used |-> method_used,
     trace |-> trace, raised |-> FALSE]

Raise(trace) ==
    [matched |-> None, conf |-> 0, method_used |-> "None",
     trace |-> trace, raised |-> TRUE]

\* lines 132-135: the point keeps its offset from the rectangle's corner
reanchor_absolute(point, x, y, best_x, best_y) ==
    <<best_x + point[1], best_y + point[2]>>
reanchor(point, x, y, best_x, best_y) ==
    <<best_x + (point[1] - x), best_y + (point[2] - y)>>

Accept(obj_dict, best, trace) ==
    LET x == obj_dict.rectangle[1]
        y == obj_dict.rectangle[2]
        w == obj_dict.rectangle[3]
        h == obj_dict.rectangle[4]
        moved == [obj_dict EXCEPT !.rectangle = <<best.x, best.y, w, h>>]
        new_obj ==
            IF obj_dict.point # <<>>
            THEN [moved EXCEPT !.point =
                      reanchor(obj_dict.point, x, y, best.x, best.y)]
            ELSE moved
    IN Ret(Some(new_obj), best.conf, best.used, trace)

\* lines 113-125: the feature path and the below-threshold report
FeatureStage(target_frame, obj_dict, method, threshold, template, best, trace) ==
    LET rect == obj_dict.rectangle
        runF == runs_feature(best.used, method)
        result == feature_match(template, target_frame, rect)
        best2 == IF runF /\ result # None /\ accepts(result[1].conf, threshold)
                 THEN [x |-> result[1].x, y |-> result[1].y,
                       conf |-> result[1].conf, used |-> "feature"]
                 ELSE best
        trace2 == IF runF THEN Append(trace, "feature") ELSE trace
    IN IF best2.used = "None"
       THEN IF method # "feature"
            THEN LET again == template_match(template, target_frame)
                 IN IF again.err THEN Raise(Append(trace2, "template"))
                    ELSE Ret(None, again.conf, "template (below threshold)",
                             Append(trace2, "template"))
            ELSE Ret(None, 0, "None", trace2)
       ELSE Accept(obj_dict, best2, trace2)

match_object(fr, target_frame, obj_dict, method, threshold) ==
    LET rect == obj_dict.rectangle
        nothing == [x |-> 0, y |-> 0, conf |-> 0, used |-> "None"]
    IN
    IF rect = <<>> THEN Ret(None, 0, "None", <<>>)
    ELSE LET template == extract_template(fr, rect) IN
    IF template.w * template.h = 0 THEN Ret(None, 0, "None", <<>>)
    ELSE IF method \in {"template", "auto"}
    THEN LET t == template_match(template, target_frame) IN
         IF t.err THEN Raise(<<"template">>)
         ELSE FeatureStage(target_frame, obj_dict, method, threshold, template,
                  IF accepts(t.conf, threshold)
                  THEN [x |-> t.x, y |-> t.y, conf |-> t.conf,
                        used |-> "template"]
                  ELSE nothing,
                  <<"template">>)
    ELSE FeatureStage(target_frame, obj_dict, method, threshold, template,
                      nothing, <<>>)

\* ------------------------------------------- the inputs of a single match
Sizes == {RefSize, <<100, 100>>, <<40, 40>>}
TConfs == {-20, 0, 40, 70, 92, 100}
Thresholds == {0, 40, 70, 100}
Methods == {"template", "feature", "auto"}

FD(kp1, good, H, inliers) ==
    [des |-> TRUE, kp1 |-> kp1, kp2 |-> 40, good |-> good, H |-> H,
     inliers |-> inliers, x |-> 108, y |-> 12]
FeatureData ==
    {FD(3, 0, FALSE, 0), FD(30, 3, FALSE, 0), FD(30, 20, FALSE, 0),
     FD(30, 20, TRUE, 8), FD(30, 20, TRUE, 14), FD(30, 20, TRUE, 17),
     FD(30, 20, TRUE, 20)}

TM(x, y, confidence) == [x |-> x, y |-> y, conf |-> confidence]

\* a frame in which every patch gives the same matcher readings
Frame(size, t, f) ==
    [W |-> size[1], H |-> size[2],
     tm |-> [r \in Rects |-> t], fm |-> [r \in Rects |-> f]]

RefFrame == Frame(RefSize, TM(0, 0, 0), FD(3, 0, FALSE, 0))

MOFrames ==
    {Frame(s, TM(110, 10, c), f) : s \in Sizes, c \in TConfs, f \in FeatureData}

NoCall == [fr |-> RefFrame, obj |-> RegN, method |-> "auto", threshold |-> 0,
           ret |-> None]

\* ------------------------------------------------ one call of match_object
InitMO ==
    /\ mo \in [fr : MOFrames, obj : RegionPool, method : Methods,
                threshold : Thresholds, ret : {None}]
    /\ pc = "mo_call"
    /\ args = <<>> /\ world = <<>> /\ docs = <<>> /\ ref_path = <<>>
    /\ ref_settings = <<>> /\ ref_frame = Some(RefFrame) /\ cap = <<>> /\ handles = <<>>
    /\ frame = <<>> /\ targets = <<>> /\ skipped = 0 /\ i = 0
    /\ results = <<>> /\ all_results = <<>> /\ calls = <<>> /\ written = <<>>
    /\ message = "" /\ summary = <<>> /\ exit_code = <<>>

MOCall ==
    /\ pc = "mo_call"
    /\ pc' = "mo_returned"
    /\ mo' = [mo EXCEPT !.ret = Some(match_object(ref_frame[1], mo.fr, mo.obj,
                                                 mo.method, mo.threshold))]
    /\ UNCHANGED <<args, world, docs, ref_path, ref_settings, ref_frame, cap, handles,
                   frame, targets, skipped, i, results, all_results, calls,
                   written, message, summary, exit_code>>

NextMO == MOCall

SpecMO == InitMO /\ [][NextMO]_vars

\* the readings the two matchers have for the call in mo
MOPatch == extract_template(RefFrame, mo.obj.rectangle)
MOValid == mo.obj.rectangle # <<>> /\ MOPatch.w * MOPatch.h > 0
MOTemplateErr ==
    ~(\/ MOPatch.w <= mo.fr.W /\ MOPatch.h <= mo.fr.H
      \/ MOPatch.w >= mo.fr.W /\ MOPatch.h >= mo.fr.H)
MOTConf == mo.fr.tm[mo.obj.rectangle].conf
MOFData == mo.fr.fm[mo.obj.rectangle]
MOFHasResult ==
    MOFData.des /\ MOFData.kp1 >= 4 /\ MOFData.kp2 >= 4 /\ MOFData.good >= 4
    /\ MOFData.H
\* inliers / good >= threshold / 100
MOFAccepted ==
    MOFHasResult /\ MOFData.inliers * 100 >= mo.threshold * MOFData.good
MOReturned == pc = "mo_returned" /\ ~mo.ret[1].raised
MOTemplateWins ==
    mo.method \in {"template", "auto"} /\ MOTConf >= mo.threshold
MOFeatureWins ==
    ~MOTemplateWins /\ mo.method \in {"feature", "auto"} /\ MOFAccepted

\* C1: for a region with a usable patch, match_object returns a Matched
\* Region tagged template exactly when the mode is template/auto and the
\* template confidence reaches the threshold, one tagged feature exactly
\* when the template path did not accept, the mode is feature/auto and the
\* Feature Matcher has a result reaching the threshold, and a No-Match in
\* every other case.
C1_DecisionPolicy ==
    (MOReturned /\ MOValid) =>
        LET r == mo.ret[1] IN
        /\ (r.matched # None /\ r.method_used = "template") <=> MOTemplateWins
        /\ (r.matched # None /\ r.method_used = "feature") <=> MOFeatureWins
        /\ (r.matched = None) <=> (~MOTemplateWins /\ ~MOFeatureWins)
        /\ r.matched # None => r.method_used \in {"template", "feature"}

C1_Witness ==
    /\ MOReturned /\ MOValid
    /\ mo.obj = RegP /\ mo.fr.W = RefSize[1] /\ mo.fr.H = RefSize[2]
    /\ mo.method = "auto" /\ mo.threshold = 70 /\ MOTConf = 40
    /\ MOFHasResult /\ MOFData.inliers = 17 /\ MOFData.good = 20
    /\ mo.ret[1].matched # None /\ mo.ret[1].method_used = "feature"

\* C2: in auto mode a template confidence at or above the threshold means
\* the Feature Matcher is not invoked in that call, and whenever the
\* Feature Matcher is invoked in auto mode the Template Matcher was invoked
\* before it.
C2_ShortCircuit ==
    (pc = "mo_returned" /\ mo.method = "auto") =>
        LET tr == mo.ret[1].trace IN
        /\ (MOValid /\ ~MOTemplateErr /\ MOTConf >= mo.threshold)
               => \A k \in DOMAIN tr : tr[k] # "feature"
        /\ \A k \in DOMAIN tr :
               tr[k] = "feature" => \E j \in 1..(k - 1) : tr[j] = "template"

C2_Witness ==
    /\ pc = "mo_returned" /\ mo.method = "auto" /\ MOValid
    /\ MOTConf >= mo.threshold
    /\ mo.ret[1].trace = <<"template">>
    /\ mo.ret[1].method_used = "template"

\* --------------------------------------------------- the inputs of a run
\* a frame in which the two rectangles give different matcher readings
Scene(size, tP, fP, tQ, fQ) ==
    [W |-> size[1], H |-> size[2],
     tm |-> [r \in Rects |-> IF r = RectP THEN tP ELSE tQ],
     fm |-> [r \in Rects |-> IF r = RectP THEN fP ELSE fQ]]

Video(opens, fr) == [opens |-> opens, frame |-> fr]

VideoKinds ==
    { Video(FALSE, None),
      Video(TRUE, None),
      Video(TRUE, Some(Scene(RefSize, TM(110, 10, 92), FD(30, 20, TRUE, 17),
                             TM(20, 30, 92), FD(3, 0, FALSE, 0)))),
      Video(TRUE, Some(Scene(RefSize, TM(100, 12, 40), FD(30, 20, TRUE, 17),
                             TM(5, 5, 40), FD(30, 3, FALSE, 0)))),
      Video(TRUE, Some(Scene(RefSize, TM(90, 14, 40), FD(30, 20, TRUE, 8),
                             TM(7, 9, -20), FD(30, 20, FALSE, 0)))),
      Video(TRUE, Some(Scene(<<100, 100>>, TM(30, 40, 92), FD(30, 20, TRUE, 17),
                             TM(0, 0, 92), FD(30, 20, TRUE, 20)))) }

GoodVideo == Video(TRUE, Some(Frame(RefSize, TM(110, 10, 92),
                                    FD(30, 20, TRUE, 17))))
ResolveKinds == {GoodVideo, Video(FALSE, None)}

RefArg == RelPath(<<RefName>>)
MissingArg == RelPath(<< <<"zz", "mp4">> >>)
TargetArgPool ==
    { RelPath(<<AName>>), AbsPath(cwd \o <<BName>>),
      RelPath(<<Dot, RefName>>), RelPath(<<Dot>>),
      RelPath(<< <<"*", "mp4">> >>) }

Doc(objects, extra) == [version |-> 1, objects |-> objects, extra |-> extra]
OldDoc == Doc(<<RegE>>, {"roi"})
RefExtra == {"ruler", "section", "window"}
DefaultObjects == <<RegP, RegN>>

Args(reference, tgts, overwrite, dry_run, method, threshold) ==
    [reference |-> reference, targets |-> tgts, overwrite |-> overwrite,
     dry_run |-> dry_run, method |-> method, threshold |-> threshold]

\* the documents on disk: the reference's own and the ones of the set old
DocsAtStart(refdoc, old) ==
    [p \in DocPaths |->
        IF p = settings_path_of(RefPath) THEN refdoc
        ELSE IF p \in {settings_path_of(v) : v \in old} THEN Some(OldDoc)
        ELSE None]

World(refvideo, a, b, d) ==
    [video |-> [v \in VideoPaths |->
                   IF v = RefPath THEN refvideo ELSE IF v = APath THEN a ELSE b],
     docs0 |-> d]

\* every way of naming the targets, against plain videos
ResolveInputs ==
    { <<Args(RefArg, t, ow, dry, "auto", 70),
        World(GoodVideo, a, b, DocsAtStart(Some(Doc(DefaultObjects, RefExtra)), old))>> :
        t \in SeqsUpTo(TargetArgPool, MaxArgs), ow \in BOOLEAN, dry \in BOOLEAN,
        a \in ResolveKinds, b \in ResolveKinds,
        old \in SUBSET {APath, BPath} }

RunThresholds == {0, 40, 70}

\* every list of regions and every kind of video, with the default targets
MatchInputs ==
    { <<Args(RefArg, <<>>, FALSE, dry, m, th),
        World(GoodVideo, a, b, DocsAtStart(Some(Doc(objs, RefExtra)), {}))>> :
        dry \in BOOLEAN, m \in Methods, th \in RunThresholds,
        objs \in SeqsUpTo(RegionPool, MaxRegions) \ {<<>>},
        a \in VideoKinds, b \in VideoKinds }

\* the inputs run_match refuses
BadInputs ==
    { <<Args(MissingArg, <<>>, FALSE, FALSE, "auto", 70),
        World(GoodVideo, GoodVideo, GoodVideo,
              DocsAtStart(Some(Doc(DefaultObjects, RefExtra)), {}))>>,
      <<Args(RefArg, <<>>, FALSE, FALSE, "auto", 70),
        World(GoodVideo, GoodVideo, GoodVideo, DocsAtStart(None, {}))>>,
      <<Args(RefArg, <<>>, FALSE, FALSE, "auto", 70),
        World(GoodVideo, GoodVideo, GoodVideo,
              DocsAtStart(Some(Doc(<<>>, RefExtra)), {}))>>,
      <<Args(RefArg, <<>>, FALSE, FALSE, "auto", 70),
        World(Video(FALSE, None), GoodVideo, GoodVideo,
              DocsAtStart(Some(Doc(DefaultObjects, RefExtra)), {}))>>,
      <<Args(RefArg, <<>>, FALSE, FALSE, "auto", 70),
        World(Video(TRUE, None), GoodVideo, GoodVideo,
              DocsAtStart(Some(Doc(DefaultObjects, RefExtra)), {}))>> }

RunInputs == ResolveInputs \cup MatchInputs \cup BadInputs

NoCap == [path |-> AbsPath(<<>>), opened |-> FALSE, reads |-> 0]
NoSettings == Doc(<<>>, {})

Init ==
    /\ \E inp \in RunInputs :
          /\ args = inp[1]
          /\ world = inp[2]
          /\ docs = inp[2].docs0
    /\ pc = "start"
    /\ ref_path = AbsPath(<<>>)
    /\ ref_settings = NoSettings
    /\ ref_frame = None
    /\ cap = NoCap
    /\ handles = <<>>
    /\ frame = None
    /\ targets = <<>>
    /\ skipped = 0
    /\ i = 0
    /\ results = <<>>
    /\ all_results = <<>>
    /\ calls = <<>>
    /\ written = <<>>
    /\ message = ""
    /\ summary = None
    /\ exit_code = None
    /\ mo = NoCall

\* ------------------------------------------------------------- run_match
objects == ref_settings.objects

\* sys.exit(code) after printing msg
Exit(code, msg) ==
    /\ pc' = "exited"
    /\ exit_code' = Some(code)
    /\ message' = msg

\* lines 176-193: the reference video, its settings document, its objects
Start ==
    /\ pc = "start"
    /\ LET rp == abspath(args.reference)
           sp == settings_path_of(rp)
       IN /\ ref_path' = rp
          /\ IF ~isfile(docs, rp)
             THEN Exit(1, "Reference video not found") /\ UNCHANGED ref_settings
             ELSE IF ~isfile(docs, sp)
             THEN Exit(1, "No settings file for reference video")
                  /\ UNCHANGED ref_settings
             ELSE /\ ref_settings' = docs[sp][1]
                  /\ IF docs[sp][1].objects = <<>>
                     THEN Exit(1, "No objects defined in reference settings.")
                     ELSE pc' = "open" /\ UNCHANGED <<exit_code, message>>
    /\ UNCHANGED <<args, world, docs, ref_frame, cap, handles, frame, targets, skipped,
                   i, results, all_results, calls, written, summary, mo>>

\* the video read_frame is called for: the reference, then target i
CurVideo == IF i = 0 THEN ref_path ELSE targets[i]

\* where read_frame returns to, with the frame it returns
Return(fr) ==
    /\ frame' = fr
    /\ IF i = 0
       THEN ref_frame' = fr /\ pc' = "resolve"
       ELSE pc' = "match" /\ UNCHANGED ref_frame

\* lines 20-22: open_video and the isOpened test
OpenVideo ==
    /\ pc = "open"
    /\ IF world.video[CurVideo].opens
       THEN /\ cap' = [path |-> CurVideo, opened |-> TRUE, reads |-> 0]
            /\ pc' = "read"
            /\ UNCHANGED <<frame, ref_frame>>
       ELSE /\ cap' = [path |-> CurVideo, opened |-> FALSE, reads |-> 0]
            /\ Return(None)
    /\ handles' = Append(handles, cap')
    /\ UNCHANGED <<args, world, docs, ref_path, ref_settings, targets, skipped,
                   i, results, all_results, calls, written, message, summary,
                   exit_code, mo>>

\* lines 23-24: seek and read one frame
ReadFrame ==
    /\ pc = "read"
    /\ cap.opened
    /\ cap' = [cap EXCEPT !.reads = @ + 1]
    /\ handles' = [handles EXCEPT ![Len(handles)] = cap']
    /\ frame' = world.video[cap.path].frame
    /\ pc' = "release"
    /\ UNCHANGED <<args, world, docs, ref_path, ref_settings, ref_frame,
                   targets, skipped, i, results, all_results, calls, written,
                   message, summary, exit_code, mo>>

\* video_io.py lines 141-144, and cv2.VideoCapture.release: the capture is closed
released_not(c) == c
released(c) == [c EXCEPT !.opened = FALSE]

\* lines 25-26: release and return the frame
Release ==
    /\ pc = "release"
    /\ cap' = released(cap)
    /\ handles' = [handles EXCEPT ![Len(handles)] = cap']
    /\ Return(frame)
    /\ UNCHANGED <<args, world, docs, ref_path, ref_settings, targets, skipped,
                   i, results, all_results, calls, written, message, summary,
                   exit_code, mo>>

\* line 208
exclude_reference_not(found, rp) == found
exclude_reference(found, rp) ==
    SelectSeq(found, LAMBDA t : abspath(t) # rp)

\* lines 217-218
skip_existing_not(d, ts) == ts
skip_existing(d, ts) ==
    SelectSeq(ts, LAMBDA t : ~isfile(d, settings_path_of(t)))

\* lines 196-212: the reference frame, the targets, without the reference
Resolve ==
    /\ pc = "resolve"
    /\ IF ref_frame = None
       THEN Exit(1, "Cannot read frame") /\ UNCHANGED targets
       ELSE LET found == IF args.targets # <<>>
                         THEN find_videos(docs, args.targets)
                         ELSE find_videos(docs, <<dirname(ref_path)>>)
            IN /\ targets' = exclude_reference(found, ref_path)
               /\ IF targets' = <<>>
                  THEN Exit(1, "No target videos found.")
                  ELSE pc' = "skip" /\ UNCHANGED <<exit_code, message>>
    /\ UNCHANGED <<args, world, docs, ref_path, ref_settings, ref_frame, cap, handles,
                   frame, skipped, i, results, all_results, calls, written,
                   summary, mo>>

\* lines 214-238: the targets that have a document are left out
SkipExisting ==
    /\ pc = "skip"
    /\ IF ~args.overwrite
       THEN /\ targets' = skip_existing(docs, targets)
            /\ skipped' = Len(targets) - Len(targets')
            /\ IF targets' = <<>>
               THEN Exit(0, "No videos to process.") /\ UNCHANGED i
               ELSE pc' = "open" /\ i' = 1 /\ UNCHANGED <<exit_code, message>>
       ELSE /\ pc' = "open" /\ i' = 1
            /\ UNCHANGED <<targets, skipped, exit_code, message>>
    /\ UNCHANGED <<args, world, docs, ref_path, ref_settings, ref_frame, cap, handles,
                   frame, results, all_results, calls, written, summary, mo>>

\* --------------------------------------------------------------- match_video
Outcome(name, matched, confidence, method_used) ==
    [name |-> name, matched |-> matched, conf |-> confidence,
     method_used |-> method_used]

\* line 148
cannot_read_untagged(objs) ==
    [k \in DOMAIN objs |-> Outcome(objs[k].name, None, 0, "None")]
cannot_read(objs) ==
    [k \in DOMAIN objs |-> Outcome(objs[k].name, None, 0, "cannot read video")]

\* lines 146-148: the target frame could not be read
MatchUnreadable ==
    /\ pc = "match"
    /\ frame = None
    /\ results' = cannot_read(objects)
    /\ pc' = "report"
    /\ UNCHANGED <<args, world, docs, ref_path, ref_settings, ref_frame, cap, handles,
                   frame, targets, skipped, i, all_results, calls, written,
                   message, summary, exit_code, mo>>

\* lines 151-155: match_object for the next region; an exception of the
\* Template Matcher is caught nowhere and ends the process with status 1
MatchRegion ==
    /\ pc = "match"
    /\ frame # None
    /\ LET j == Len(results) + 1
           r == match_object(ref_frame[1], frame[1], objects[j], args.method,
                             args.threshold)
       IN /\ calls' = calls \o [k \in DOMAIN r.trace |-> <<i, j, r.trace[k]>>]
          /\ IF r.raised
             THEN /\ pc' = "raised"
                  /\ exit_code' = Some(1)
                  /\ UNCHANGED results
             ELSE /\ results' = Append(results,
                         Outcome(objects[j].name, r.matched, r.conf,
                                 r.method_used))
                  /\ pc' = IF j = Len(objects) THEN "report" ELSE "match"
                  /\ UNCHANGED exit_code
    /\ UNCHANGED <<args, world, docs, ref_path, ref_settings, ref_frame, cap, handles,
                   frame, targets, skipped, i, all_results, written, message,
                   summary, mo>>

\* lines 159-171
generate_settings(rs, matched_objects, target_path) ==
    [path |-> settings_path_of(target_path),
     data |-> Doc(matched_objects, rs.extra \cap {"ruler", "section", "roi"})]

\* lines 247-259: the matched regions of a result list, in order
matched_of(res) ==
    LET hit == SelectSeq(res, LAMBDA r : r.matched # None)
    IN [k \in DOMAIN hit |-> hit[k].matched[1]]

\* line 262
should_write_always(matched_objects, dry_run) == matched_objects # <<>>
should_write(matched_objects, dry_run) == matched_objects # <<>> /\ ~dry_run

\* lines 247-267: report the outcomes of target i, write its document
Report ==
    /\ pc = "report"
    /\ LET target == targets[i]
           matched_objects == matched_of(results)
           all_ok == \A k \in DOMAIN results : results[k].matched # None
           w == generate_settings(ref_settings, matched_objects, target)
       IN /\ IF should_write(matched_objects, args.dry_run)
             THEN /\ docs' = [docs EXCEPT ![w.path] = Some(w.data)]
                  /\ written' = Append(written,
                         [path |-> w.path, target |-> i,
                          existed |-> docs[w.path] # None])
             ELSE UNCHANGED <<docs, written>>
          /\ all_results' = Append(all_results,
                 [target |-> target, ok |-> all_ok, results |-> results])
    /\ results' = <<>>
    /\ IF i < Len(targets)
       THEN i' = i + 1 /\ pc' = "open"
       ELSE pc' = "summary" /\ UNCHANGED i
    /\ UNCHANGED <<args, world, ref_path, ref_settings, ref_frame, cap, handles, frame,
                   targets, skipped, calls, message, summary, exit_code, mo>>

\* line 279
exit_status_strict(full_match, partial, failed) ==
    IF failed = 0 /\ partial = 0 THEN 0 ELSE 1
exit_status(full_match, partial, failed) == IF failed = 0 THEN 0 ELSE 1

\* lines 269-279
\* lines 271-272: a target with some but not all regions matched
is_partial_any(e) == \E k \in DOMAIN e.results : e.results[k].matched # None
is_partial(e) ==
    ~e.ok /\ \E k \in DOMAIN e.results : e.results[k].matched # None

\* lines 273-274: a target with no region matched
is_failed(e) ==
    ~e.ok /\ \A k \in DOMAIN e.results : e.results[k].matched = None

Summary ==
    /\ pc = "summary"
    /\ LET full_match == Count(all_results, LAMBDA e : e.ok)
           partial == Count(all_results, is_partial)
           failed == Count(all_results, is_failed)
       IN /\ summary' = Some([full_match |-> full_match, partial |-> partial,
                              failed |-> failed, total |-> Len(all_results)])
          /\ exit_code' = Some(exit_status(full_match, partial, failed))
    /\ pc' = "exited"
    /\ UNCHANGED <<args, world, docs, ref_path, ref_settings, ref_frame, cap, handles,
                   frame, targets, skipped, i, results, all_results, calls,
                   written, message, mo>>

Next ==
    \/ Start
    \/ OpenVideo
    \/ ReadFrame
    \/ Release
    \/ Resolve
    \/ SkipExisting
    \/ MatchUnreadable
    \/ MatchRegion
    \/ Report
    \/ Summary

Spec == Init /\ [][Next]_vars

\* ------------------------------------------------------- claims on the run
Terminated == pc \in {"exited", "raised"}

\* the run got past the checks of its inputs (lines 176-199)
InputsValid == ref_frame # None /\ pc # "resolve"

\* target k of the run has a result list with a matched region in it
Achieved(k) ==
    /\ k \in DOMAIN all_results
    /\ \E n \in DOMAIN all_results[k].results :
          all_results[k].results[n].matched # None

PreExisting(v) == world.docs0[settings_path_of(v)] # None

Unreadable(v) == ~world.video[v].opens \/ world.video[v].frame = None

C5_Excluded ==
    ~args.overwrite =>
        /\ i >= 1 => \A k \in DOMAIN targets : ~PreExisting(targets[k])
        /\ (i >= 1 /\ pc \in {"read", "release", "match", "report"})
              => ~PreExisting(cap.path)
        /\ \A k \in DOMAIN written : world.docs0[written[k].path] = None
        /\ \A k \in DOMAIN all_results : ~PreExisting(all_results[k].target)
        /\ summary # None => summary[1].total = Len(targets)

C5_Counted ==
    (pc = "skip" /\ ~args.overwrite) =>
        /\ skipped' = Cardinality({k \in DOMAIN targets : PreExisting(targets[k])})
        /\ Len(targets') = Len(targets) - skipped'

C5_SkipExisting == []C5_Excluded /\ [][C5_Counted]_vars

C5_Witness ==
    /\ ~args.overwrite /\ pc = "exited" /\ skipped >= 1
    /\ Len(all_results) >= 1 /\ written # <<>>

\* C6: in a run without the overwrite flag generate_settings is never
\* called for a path that holds a settings document at that moment.
C6_OverwriteGated ==
    ~args.overwrite => \A k \in DOMAIN written : ~written[k].existed

\* C7: the reference video is never a target: it is not in the target list,
\* no matcher runs for it, it has no result list, and its settings document
\* is never written.
C7_SelfExclusion ==
    LET ref == abspath(args.reference) IN
    /\ \A k \in DOMAIN targets : abspath(targets[k]) # ref
    /\ i >= 1 => targets[i] # ref
    /\ \A k \in DOMAIN all_results : abspath(all_results[k].target) # ref
    /\ \A k \in DOMAIN written : written[k].path # settings_path_of(ref)
    /\ docs[settings_path_of(RefPath)] = world.docs0[settings_path_of(RefPath)]

\* the reference is among the videos the arguments resolve to
RefResolved ==
    \/ args.targets = <<>>
    \/ \E k \in DOMAIN args.targets :
          args.targets[k] \in {RelPath(<<Dot, RefName>>), RelPath(<<Dot>>),
                               RelPath(<< <<"*", "mp4">> >>)}

C7_Witness ==
    /\ pc = "exited" /\ Len(all_results) >= 1 /\ written # <<>>
    /\ Len(args.targets) = 2
    /\ args.targets[1] = RelPath(<<Dot, RefName>>)
    /\ args.targets[2] = RelPath(<<Dot>>)

\* C8: a processed target gets a document exactly when one of its regions
\* matched and dry-run is not set, and the document's objects are the
\* target's Matched Regions in region order.
C8_DocumentWritten ==
    \A k \in DOMAIN all_results :
        LET res == all_results[k].results
            hits == SelectSeq(res, LAMBDA r : r.matched # None)
            mine == {n \in DOMAIN written : written[n].target = k}
            later == {n \in DOMAIN written :
                         /\ written[n].target > k
                         /\ written[n].path =
                               settings_path_of(all_results[k].target)}
        IN /\ Cardinality(mine) <= 1
           /\ mine # {} <=> (hits # <<>> /\ ~args.dry_run)
           /\ \A n \in mine :
                 /\ written[n].path = settings_path_of(all_results[k].target)
                 /\ later = {} =>
                       /\ docs[written[n].path] # None
                       /\ docs[written[n].path][1].objects =
                             [m \in DOMAIN hits |-> hits[m].matched[1]]
           /\ (mine = {} /\ later = {}) =>
                 docs[settings_path_of(all_results[k].target)] =
                     world.docs0[settings_path_of(all_results[k].target)]

C8_Witness ==
    /\ pc = "exited" /\ ~args.dry_run
    /\ \E k \in DOMAIN all_results :
          /\ ~all_results[k].ok /\ Achieved(k)
          /\ \E n \in DOMAIN written : written[n].target = k
    /\ \E k \in DOMAIN all_results :
          /\ ~Achieved(k)
          /\ \A n \in DOMAIN written : written[n].target # k

\* C9: for a target whose frame cannot be read no matcher is invoked, every
\* region gets a No-Match tagged "cannot read video" with confidence 0, the
\* target counts as failed, and the run goes on with the next target.
C9_CannotRead ==
    /\ \A c \in DOMAIN calls : ~Unreadable(targets[calls[c][1]])
    /\ \A k \in DOMAIN all_results :
          /\ all_results[k].target = targets[k]
          /\ k < Len(targets) => i > k
          /\ Unreadable(targets[k]) =>
                /\ ~all_results[k].ok /\ ~Achieved(k)
                /\ Len(all_results[k].results) = Len(objects)
                /\ \A n \in DOMAIN objects :
                      all_results[k].results[n] =
                          [name |-> objects[n].name, matched |-> None,
                           conf |-> 0, method_used |-> "cannot read video"]
    /\ summary # None =>
          summary[1].failed >=
              Cardinality({k \in DOMAIN targets : Unreadable(targets[k])})

C9_Witness ==
    /\ pc = "exited" /\ Len(all_results) >= 2
    /\ Unreadable(targets[1]) /\ ~Unreadable(targets[2]) /\ Achieved(2)
    /\ all_results[1].results[1].method_used = "cannot read video"

\* C10: match_video on a readable frame returns one outcome per region, in
\* region order, and no failure on one region ends the run.
C10_Containment ==
    /\ pc # "raised"
    /\ (pc = "report" /\ frame # None) =>
          /\ Len(results) = Len(objects)
          /\ \A n \in DOMAIN objects : results[n].name = objects[n].name

\* every outcome match_video has produced so far in the run
Outcomes ==
    {results[n] : n \in DOMAIN results} \cup
    UNION {{all_results[k].results[n] : n \in DOMAIN all_results[k].results} :
           k \in DOMAIN all_results}

C13_ThresholdMonotone ==
    (MOReturned /\ mo.ret[1].matched = None) =>
        \A t2 \in Thresholds :
            t2 >= mo.threshold =>
                LET again == match_object(RefFrame, mo.fr, mo.obj, mo.method, t2)
                IN ~again.raised /\ again.matched = None

C13_Witness ==
    /\ MOReturned /\ MOValid
    /\ mo.method = "auto" /\ mo.threshold = 70
    /\ MOTConf = 40 /\ MOFHasResult /\ MOFData.inliers = 8
    /\ mo.ret[1].matched = None
    /\ mo.ret[1].method_used = "template (below threshold)"

\* the number of matched regions of processed target k
Hits(k) ==
    Cardinality({n \in DOMAIN all_results[k].results :
                    all_results[k].results[n].matched # None})

\* C14: the summary counts the processed targets with all regions matched,
\* with some but not all, and with none; the three classes are disjoint and
\* add up to the number of processed targets, which are the targets taken
\* one after the other in resolution order.
C14_Classification ==
    /\ \A k \in DOMAIN all_results :
          /\ all_results[k].target = targets[k]
          /\ Len(all_results[k].results) = Len(objects)
          /\ all_results[k].ok <=> Hits(k) = Len(objects)
    /\ (i >= 1 /\ ~Terminated) =>
          Len(all_results) = IF pc = "summary" THEN i ELSE i - 1
    /\ summary # None =>
          LET s == summary[1]
              full == {k \in DOMAIN all_results : Hits(k) = Len(objects)}
              part == {k \in DOMAIN all_results :
                          0 < Hits(k) /\ Hits(k) < Len(objects)}
              none == {k \in DOMAIN all_results : Hits(k) = 0}
          IN /\ s.full_match = Cardinality(full)
             /\ s.partial = Cardinality(part)
             /\ s.failed = Cardinality(none)
             /\ full \cap part = {} /\ full \cap none = {} /\ part \cap none = {}
             /\ s.full_match + s.partial + s.failed = s.total
             /\ s.total = Len(all_results) /\ s.total = Len(targets)

C14_Witness ==
    /\ pc = "exited" /\ summary # None
    /\ summary[1].full_match = 1 /\ summary[1].partial = 1
    /\ summary[1].failed = 0 /\ summary[1].total = 2

\* the capture objects that are open
OpenHandles == {n \in DOMAIN handles : handles[n].opened}

\* C15: at most one capture is open at any time; every read_frame call opens
\* one capture for its video, reads exactly one frame from it when it opened
\* and none when it did not, and has released it before the next capture is
\* opened and before the run ends.
C15_HandleDiscipline ==
    /\ Cardinality(OpenHandles) <= 1
    /\ OpenHandles \subseteq {Len(handles)}
    /\ OpenHandles # {} <=> pc \in {"read", "release"}
    /\ pc = "open" => OpenHandles = {}
    /\ Terminated => OpenHandles = {}
    /\ \A n \in DOMAIN handles :
          /\ handles[n].path = IF n = 1 THEN ref_path ELSE targets[n - 1]
          /\ handles[n].reads <= 1
          /\ (~handles[n].opened /\ world.video[handles[n].path].opens)
                => handles[n].reads = 1
          /\ ~world.video[handles[n].path].opens
                => (~handles[n].opened /\ handles[n].reads = 0)
          /\ (handles[n].opened /\ handles[n].reads = 0) => pc = "read"
          /\ (handles[n].opened /\ handles[n].reads = 1) => pc = "release"
    /\ pc \in {"match", "report", "summary"} => Len(handles) = i + 1
    /\ pc = "open" => Len(handles) = i

C15_Witness ==
    /\ pc = "exited" /\ summary # None
    /\ Len(handles) = 3
    /\ handles[2].reads = 1 /\ handles[3].reads = 0
    /\ \A n \in DOMAIN handles : ~handles[n].opened

====
